---------------------------- MODULE Spec2Model ----------------------------
(***************************************************************************)
(* A model of couchbaselabs/ghistogram (src/ghistogram.go): the bucket     *)
(* search, the constructor NewHistogram, and the mutex-guarded operations  *)
(* Add, AddAll, EmitGraph and CallSync run by concurrent goroutines; and   *)
(* the Add of the package's earlier Histogram, which has no mutex.         *)
(*                                                                         *)
(* Go slices are functions over 0..n-1, so indices are the source's.       *)
(* uint64 is scaled to WordBits bits: all unsigned arithmetic is taken     *)
(* modulo 2^WordBits and math.MaxUint64 is 2^WordBits - 1.                 *)
(***************************************************************************)
EXTENDS Integers, Sequences, FiniteSets, TLC

(* ------------------------------ bounds -------------------------------- *)

\* Width of the model's unsigned word (uint64 in the source).
WordBits == 8

\* search is explored on every non-decreasing array of at most MaxLen
\* entries over 0..MaxVal, with data points 0..MaxVal+1.
MaxLen == 5

MaxVal == 3

\* NewHistogram is explored for numBins in 0..MaxBins.
MaxBins == 5

\* Goroutines sharing the histograms, and the calls they make in all.
NThreads == 2

MaxCalls == 3

(* --------------------------- unsigned words --------------------------- *)

Modulus == 2 ^ WordBits

MaxUint64 == Modulus - 1

\* uint64 addition and subtraction wrap around.
AddU(x, y) == (x + y) % Modulus

SubU(x, y) == (x - y) % Modulus

\* len() of a slice.
len(a) == Cardinality(DOMAIN a)

MinOf(S) == CHOOSE x \in S : \A y \in S : x <= y

MaxOf(S) == CHOOSE x \in S : \A y \in S : x >= y

(* ------------------------------- search ------------------------------- *)

\* h := i + (j-i)/2
SearchMid(i, j) == i + (j - i) \div 2

\* A plausible slip: a strict comparison sends a data point equal to a
\* boundary to the previous bin.
SearchGoRightStrict(arr, dataPoint, h) == dataPoint > arr[h]

\* if dataPoint >= arr[h]
SearchGoRight(arr, dataPoint, h) == dataPoint >= arr[h]

\* A plausible slip: "i = h" instead of "i = h + 1".
SearchIterNoAdvance(arr, dataPoint, i, j) ==
    LET h == SearchMid(i, j)
    IN  IF SearchGoRight(arr, dataPoint, h) THEN <<h, j>> ELSE <<i, h>>

\* One iteration of "for i < j": the next <<i, j>>.
SearchIter(arr, dataPoint, i, j) ==
    LET h == SearchMid(i, j)
    IN  IF SearchGoRight(arr, dataPoint, h) THEN <<h + 1, j>> ELSE <<i, h>>

\* A plausible slip: returning i, the first index past the data point.
SearchResultOffByOne(i) == i

\* return i - 1
SearchResult(i) == i - 1

RECURSIVE SearchLoop(_, _, _, _)
SearchLoop(arr, dataPoint, i, j) ==
    IF i < j
    THEN LET n == SearchIter(arr, dataPoint, i, j)
         IN  SearchLoop(arr, dataPoint, n[1], n[2])
    ELSE SearchResult(i)

\* func search(arr []uint64, dataPoint uint64) int
search(arr, dataPoint) == SearchLoop(arr, dataPoint, 0, len(arr))

(* ---------------------------- NewHistogram ---------------------------- *)

\* A growth factor is a float64 held as the dyadic rational num/den (den a
\* power of two).  For the values of the model (all below 2^53) the
\* conversion float64(x) and the product g * x are exact in float64, so
\* math.Ceil sees the exact rational.
Float(num, den) == [num |-> num, den |-> den]

\* A plausible slip: math.Round instead of math.Ceil.
CeilMulRound(g, x) == (2 * g.num * x + g.den) \div (2 * g.den)

\* math.Ceil(g * float64(x)) for x >= 0, g >= 0.
CeilMul(g, x) == (g.num * x + g.den - 1) \div g.den

\* A plausible slip: truncation instead of math.Ceil.
NextRangeFloor(prev, binFirst, g) ==
    IF g.num = 0 THEN AddU(prev, binFirst) ELSE (g.num * prev) \div g.den

\* The body of the loop over i >= 2: Ranges[i] from Ranges[i-1].  The
\* conversion uint64(...) of a ceiling that fits the word is that ceiling
\* (NewInit admits only such arguments, see Fits).
NextRange(prev, binFirst, g) ==
    IF g.num = 0 THEN AddU(prev, binFirst) ELSE CeilMul(g, prev)

RECURSIVE RangesLoop(_, _, _, _)
RangesLoop(ranges, i, binFirst, g) ==
    IF i < len(ranges)
    THEN RangesLoop([ranges EXCEPT ![i] = NextRange(ranges[i - 1], binFirst, g)],
                    i + 1, binFirst, g)
    ELSE ranges

\* Ranges as NewHistogram leaves it, for numBins >= 2.
NewRanges(numBins, binFirst, g) ==
    RangesLoop([i \in 0 .. numBins - 1 |->
                   IF i = 1 THEN binFirst ELSE 0], 2, binFirst, g)

\* func NewHistogram(numBins int, binFirst uint64, binGrowthFactor float64)
\* for numBins >= 2.  The mutex m is the variable m below.
NewHistogram(numBins, binFirst, g) ==
    [Ranges       |-> NewRanges(numBins, binFirst, g),
     Counts       |-> [i \in 0 .. numBins - 1 |-> 0],
     TotCount     |-> 0,
     TotDataPoint |-> 0,
     MinDataPoint |-> MaxUint64,
     MaxDataPoint |-> 0]

(* ----------------------- Add, AddAll, EmitGraph ------------------------ *)

\* A plausible slip: adding one event whatever the count passed.
AddCountOne(c, count) == AddU(c, 1)

\* gh.Counts[idx] += count, from the value c read from Counts[idx].
AddCount(c, count) == AddU(c, count)

\* A plausible slip (the package's earlier Add): tracking the minimum and
\* maximum of the counts instead of the data points.
AddTotalsOfCount(g, dataPoint, count) ==
    [g EXCEPT !.TotCount = AddU(@, count),
              !.TotDataPoint = AddU(@, dataPoint),
              !.MinDataPoint = IF @ > count THEN count ELSE @,
              !.MaxDataPoint = IF @ < count THEN count ELSE @]

\* A plausible slip: "else if" between the two ifs, so that a data point
\* that lowers the minimum never raises the maximum.
AddTotalsElseIf(g, dataPoint, count) ==
    [g EXCEPT !.TotCount = AddU(@, count),
              !.TotDataPoint = AddU(@, dataPoint),
              !.MinDataPoint = IF @ > dataPoint THEN dataPoint ELSE @,
              !.MaxDataPoint = IF g.MinDataPoint <= dataPoint /\ @ < dataPoint
                               THEN dataPoint ELSE @]

\* A plausible slip: product semantics, the data point weighted by its
\* count in the sum of the data points.
AddTotalsProduct(g, dataPoint, count) ==
    [g EXCEPT !.TotCount = AddU(@, count),
              !.TotDataPoint = AddU(@, (dataPoint * count) % Modulus),
              !.MinDataPoint = IF @ > dataPoint THEN dataPoint ELSE @,
              !.MaxDataPoint = IF @ < dataPoint THEN dataPoint ELSE @]

\* gh.TotCount += count; gh.TotDataPoint += dataPoint; and the two ifs on
\* MinDataPoint and MaxDataPoint.
AddTotals(g, dataPoint, count) ==
    [g EXCEPT !.TotCount = AddU(@, count),
              !.TotDataPoint = AddU(@, dataPoint),
              !.MinDataPoint = IF @ > dataPoint THEN dataPoint ELSE @,
              !.MaxDataPoint = IF @ < dataPoint THEN dataPoint ELSE @]

\* func (gh *Histogram) Add(dataPoint uint64, count uint64), as one step:
\* the histogram a call of Add that nothing interleaves with leaves.
AddApply(g, dataPoint, count) ==
    LET idx == search(g.Ranges, dataPoint)
    IN  IF idx >= 0
        THEN AddTotals([g EXCEPT !.Counts[idx] = AddCount(@, count)],
                       dataPoint, count)
        ELSE g

\* A plausible slip: "i < len(src.Counts)-1" leaves the last bin out.
AddAllCountsShort(g, src) ==
    [g EXCEPT !.Counts = [i \in DOMAIN g.Counts |->
        IF i < len(src.Counts) - 1 THEN AddU(g.Counts[i], src.Counts[i])
                                   ELSE g.Counts[i]]]

\* for i := 0; i < len(src.Counts); i++ { gh.Counts[i] += src.Counts[i] }
\* on histograms of the same shape.
AddAllCounts(g, src) ==
    [g EXCEPT !.Counts = [i \in DOMAIN g.Counts |->
        IF i < len(src.Counts) THEN AddU(g.Counts[i], src.Counts[i])
                               ELSE g.Counts[i]]]

\* A plausible slip: the merge forgets gh.TotCount += src.TotCount.
AddAllTotalsNoCount(g, src) ==
    [g EXCEPT !.TotDataPoint = AddU(@, src.TotDataPoint),
              !.MinDataPoint = IF @ > src.MinDataPoint THEN src.MinDataPoint ELSE @,
              !.MaxDataPoint = IF @ < src.MaxDataPoint THEN src.MaxDataPoint ELSE @]

\* A plausible slip: "gh.TotCount = src.TotCount", an assignment instead of
\* "+=".
AddAllTotalsAssign(g, src) ==
    [g EXCEPT !.TotCount = src.TotCount,
              !.TotDataPoint = AddU(@, src.TotDataPoint),
              !.MinDataPoint = IF @ > src.MinDataPoint THEN src.MinDataPoint ELSE @,
              !.MaxDataPoint = IF @ < src.MaxDataPoint THEN src.MaxDataPoint ELSE @]

\* A plausible slip: the minimum copied from src without the comparison.
AddAllTotalsCopyMin(g, src) ==
    [g EXCEPT !.TotCount = AddU(@, src.TotCount),
              !.TotDataPoint = AddU(@, src.TotDataPoint),
              !.MinDataPoint = src.MinDataPoint,
              !.MaxDataPoint = IF @ < src.MaxDataPoint THEN src.MaxDataPoint ELSE @]

\* gh.TotCount += src.TotCount; gh.TotDataPoint += src.TotDataPoint; and
\* the two ifs on MinDataPoint and MaxDataPoint.
AddAllTotals(g, src) ==
    [g EXCEPT !.TotCount = AddU(@, src.TotCount),
              !.TotDataPoint = AddU(@, src.TotDataPoint),
              !.MinDataPoint = IF @ > src.MinDataPoint THEN src.MinDataPoint ELSE @,
              !.MaxDataPoint = IF @ < src.MaxDataPoint THEN src.MaxDataPoint ELSE @]

\* A plausible slip: "runCount = c" reports the count of the line instead of
\* the running total.
RunCountOfLine(counts, i) == counts[i]

\* runCount after line i: the sum of counts[0..i].
RECURSIVE RunCount(_, _)
RunCount(counts, i) ==
    IF i < 0 THEN 0 ELSE AddU(RunCount(counts, i - 1), counts[i])

\* The lines EmitGraph writes, one per bin: START+WIDTH=COUNT PCT%, the
\* percentage kept as its two operands runCount and TotCount.
EmitLines(g) ==
    [i \in 1 .. len(g.Counts) |->
        [start |-> g.Ranges[i - 1],
         width |-> IF i - 1 < len(g.Counts) - 1
                   THEN SubU(g.Ranges[i], g.Ranges[i - 1]) ELSE 0,
         count |-> g.Counts[i - 1],
         run   |-> RunCount(g.Counts, i - 1),
         tot   |-> g.TotCount]]

\* A plausible slip: writing into a buffer of its own whatever out is, so
\* that the caller's content is not in what EmitGraph returns.
EmitBufferFresh(out, b, g) == EmitLines(g)

\* if out == nil { out = bytes.NewBuffer(...) }, then the lines written to
\* out: b is the content of the buffer passed when out is not nil.
EmitBuffer(out, b, g) == (IF out = "nil" THEN <<>> ELSE b) \o EmitLines(g)

(* ------------------------------- state -------------------------------- *)

VARIABLES
    \* One call of search, iteration by iteration.
    sArr,        \* arr
    sDataPoint,  \* dataPoint
    sI,          \* i
    sJ,          \* j
    sPc,         \* "loop" while in the for loop, "done" once returned
    sRet,        \* the value returned
    sProbes,     \* the indices h probed so far, in order
    \* One call of NewHistogram.
    nIn,         \* the arguments numBins, binFirst, binGrowthFactor
    nOut,        \* the outcome: not yet called, a histogram, or a panic
    \* Histograms shared by goroutines.
    scenario,    \* which calls the goroutines make (see Script)
    gh,          \* the histograms: Ranges, Counts and the four totals
    m,           \* gh.m of each histogram: TRUE while locked
    pc,          \* where each goroutine is in its current call
    op,          \* the current (or last) call of each goroutine
    ncalls,      \* how many calls the goroutines have started
    loc,         \* locals of Add: idx and the value read from Counts[idx]
    buf,         \* the bytes.Buffer each goroutine passes to EmitGraph
    vals,        \* history: the data points passed to Add, per histogram
    pre,         \* history: the receiver as it was when Add, AddAll or
                 \* EmitGraph took its lock
    mark,        \* history: the histograms when the first merge was called
    replay,      \* history: one fresh histogram given every Add of the merge
                 \* scenario, whichever histogram the Add was called on
    \* The package's earlier Histogram, without a mutex: its user serializes
    \* the calls.
    lfGh,        \* the histogram: Ranges, Counts, MinDataPoint, MaxDataPoint
    lfCalls,     \* how many calls of Add have been made
    lfVals       \* history: the data points passed to Add

searchVars == <<sArr, sDataPoint, sI, sJ, sPc, sRet, sProbes>>

newVars == <<nIn, nOut>>

histVars == <<scenario, gh, m, pc, op, ncalls, loc, buf, vals, pre, mark,
              replay>>

oldVars == <<lfGh, lfCalls, lfVals>>

vars == <<searchVars, newVars, histVars, oldVars>>

Threads == 1 .. NThreads

Hists == {"A", "B"}

\* Every histogram of the shared-histogram scenarios is built by
\* NewHistogram(3, 10, 2.0): Ranges {0, 10, 20}.
Shape == [numBins |-> 3, binFirst |-> 10, g |-> Float(2, 1)]

Fresh == NewHistogram(Shape.numBins, Shape.binFirst, Shape.g)

(* ------------------------------- calls -------------------------------- *)

Op(kind, h, src, dataPoint, count, f, out) ==
    [kind |-> kind, gh |-> h, src |-> src, dataPoint |-> dataPoint,
     count |-> count, f |-> f, out |-> out]

OpAdd(h, dataPoint, count) == Op("Add", h, h, dataPoint, count, "none", "nil")

OpAddAll(h, src) == Op("AddAll", h, src, 0, 0, "none", "nil")

OpEmitGraph(h, out) == Op("EmitGraph", h, h, 0, 0, "none", out)

OpCallSync(h, f) == Op("CallSync", h, h, 0, 0, f, "nil")

\* No call under way, and Add's locals before it sets them.
NoOp == Op("none", "A", "A", 0, 0, "none", "nil")

NoLoc == [idx |-> -1, c |-> 0]

\* Data points: zero, a boundary, between two boundaries, past the last
\* boundary, and the largest word.
AddValues == {0, 10, 15, 25, MaxUint64}

AddWeights == {0, 1, MaxUint64}

\* Data points of bin 1, [10, 20).
SameBinValues == {10, 15}

FillValues == {0, 15, 25}

FillWeights == {1, 2}

AnyValues == {0, 15}

AnyWeights == {1, MaxUint64}

\* The calls a script entry allows.
OpsOf(tag) ==
    CASE tag = "add"  -> {OpAdd("A", v, w) : v \in AddValues, w \in AddWeights}
      [] tag = "add1" -> {OpAdd("A", v, 1) : v \in SameBinValues}
      [] tag = "fill" -> {OpAdd(h, v, w) : h \in Hists, v \in FillValues,
                                           w \in FillWeights}
      [] tag \in {"merge1", "merge2"} -> {OpAddAll("B", "A")}
      [] tag = "any"  ->
            {OpAdd(h, v, w) : h \in Hists, v \in AnyValues, w \in AnyWeights}
            \cup {OpAddAll(h, src) : h \in Hists, src \in Hists}
            \cup {OpEmitGraph(h, out) : h \in Hists, out \in {"nil", "buf"}}
            \cup {OpCallSync(h, f) : h \in Hists, f \in {"return", "panic"}}

\* The calls the goroutines make, in the order they start them:
\*   general  any calls, by two goroutines;
\*   adds     Add on histogram A, by any goroutine;
\*   add1     Add(v, 1) with v in one bin of A, by any goroutine;
\*   merge    goroutine 1 fills A and B, then calls B.AddAll(A) twice;
\*   none     nothing (search and NewHistogram are explored alone).
Script(sc) ==
    CASE sc = "general" -> [k \in 1 .. MaxCalls |-> "any"]
      [] sc = "adds"    -> [k \in 1 .. MaxCalls |-> "add"]
      [] sc = "add1"    -> [k \in 1 .. MaxCalls |-> "add1"]
      [] sc = "merge"   -> [k \in 1 .. MaxCalls |-> "fill"] \o <<"merge1", "merge2">>
      [] OTHER          -> <<>>

\* The merge scenario is sequential: goroutine 1 makes every call.  The
\* general scenario is run by goroutines 1 and 2.
MayCall(sc, t) ==
    CASE sc = "merge"   -> t = 1
      [] sc = "general" -> t <= 2
      [] OTHER          -> TRUE

Scenarios == {"general", "adds", "add1", "merge"}

FirstPc(kind) ==
    CASE kind = "Add"       -> "AddLock"
      [] kind = "AddAll"    -> "AddAllLockSrc"
      [] kind = "EmitGraph" -> "EmitLock"
      [] kind = "CallSync"  -> "SyncLock"

\* The call touches histogram h.
Involves(o, h) == o.gh = h \/ (o.kind = "AddAll" /\ o.src = h)

\* No goroutine is inside a call that touches h.
Quiescent(h) == \A t \in Threads : pc[t] = "idle" \/ ~Involves(op[t], h)

(* ------------------------------ the mutex ----------------------------- *)

\* A plausible slip: a Lock that never waits.
CanLockAlways(h) == TRUE

\* gh.m.Lock() returns only once the mutex is unlocked.
CanLock(h) == ~m[h]

(* ------------------------------ goroutines ---------------------------- *)

\* A goroutine makes the next call of its script.
Call(t) ==
    /\ pc[t] = "idle"
    /\ MayCall(scenario, t)
    /\ ncalls < Len(Script(scenario))
    /\ LET tag == Script(scenario)[ncalls + 1]
       IN  \E o \in OpsOf(tag) :
             /\ op' = [op EXCEPT ![t] = o]
             /\ pc' = [pc EXCEPT ![t] = FirstPc(o.kind)]
             /\ vals' = IF o.kind = "Add"
                        THEN [vals EXCEPT ![o.gh] = @ \cup {o.dataPoint}]
                        ELSE vals
             /\ mark' = IF tag = "merge1" THEN gh ELSE mark
             /\ replay' = IF tag = "fill"
                          THEN AddApply(replay, o.dataPoint, o.count)
                          ELSE replay
    /\ ncalls' = ncalls + 1
    /\ UNCHANGED <<scenario, gh, m, loc, buf, pre, searchVars, newVars, oldVars>>

\* Add: gh.m.Lock()
AddLock(t) ==
    /\ pc[t] = "AddLock"
    /\ CanLock(op[t].gh)
    /\ m' = [m EXCEPT ![op[t].gh] = TRUE]
    /\ pre' = [pre EXCEPT ![t] = gh[op[t].gh]]
    /\ pc' = [pc EXCEPT ![t] = "AddSearch"]
    /\ UNCHANGED <<scenario, gh, op, ncalls, loc, buf, vals, mark, replay,
                   searchVars, newVars, oldVars>>

\* Add: idx := search(gh.Ranges, dataPoint); if idx >= 0, the read of
\* gh.Counts[idx] that "+=" starts with.
AddSearch(t) ==
    /\ pc[t] = "AddSearch"
    /\ LET g   == gh[op[t].gh]
           idx == search(g.Ranges, op[t].dataPoint)
       IN  /\ loc' = [loc EXCEPT ![t] =
                        [idx |-> idx, c |-> IF idx >= 0 THEN g.Counts[idx] ELSE 0]]
           /\ pc' = [pc EXCEPT ![t] = IF idx >= 0 THEN "AddCounts" ELSE "AddUnlock"]
    /\ UNCHANGED <<scenario, gh, m, op, ncalls, buf, vals, pre, mark, replay,
                   searchVars, newVars, oldVars>>

\* Add: the write of gh.Counts[idx] += count.
AddCounts(t) ==
    /\ pc[t] = "AddCounts"
    /\ gh' = [gh EXCEPT ![op[t].gh].Counts[loc[t].idx] =
                          AddCount(loc[t].c, op[t].count)]
    /\ pc' = [pc EXCEPT ![t] = "AddTotals"]
    /\ UNCHANGED <<scenario, m, op, ncalls, loc, buf, vals, pre, mark, replay,
                   searchVars, newVars, oldVars>>

\* Add: the totals, the minimum and the maximum.
AddTotalsStep(t) ==
    /\ pc[t] = "AddTotals"
    /\ gh' = [gh EXCEPT ![op[t].gh] = AddTotals(@, op[t].dataPoint, op[t].count)]
    /\ pc' = [pc EXCEPT ![t] = "AddUnlock"]
    /\ UNCHANGED <<scenario, m, op, ncalls, loc, buf, vals, pre, mark, replay,
                   searchVars, newVars, oldVars>>

\* Add: gh.m.Unlock()
AddUnlock(t) ==
    /\ pc[t] = "AddUnlock"
    /\ m' = [m EXCEPT ![op[t].gh] = FALSE]
    /\ pre' = [pre EXCEPT ![t] = Fresh]
    /\ pc' = [pc EXCEPT ![t] = "idle"]
    /\ op' = [op EXCEPT ![t] = NoOp]
    /\ loc' = [loc EXCEPT ![t] = NoLoc]
    /\ UNCHANGED <<scenario, gh, ncalls, buf, vals, mark, replay,
                   searchVars, newVars, oldVars>>

\* AddAll: src.m.Lock()
AddAllLockSrc(t) ==
    /\ pc[t] = "AddAllLockSrc"
    /\ CanLock(op[t].src)
    /\ m' = [m EXCEPT ![op[t].src] = TRUE]
    /\ pc' = [pc EXCEPT ![t] = "AddAllLockDst"]
    /\ UNCHANGED <<scenario, gh, op, ncalls, loc, buf, vals, pre, mark, replay,
                   searchVars, newVars, oldVars>>

\* AddAll: gh.m.Lock()
AddAllLockDst(t) ==
    /\ pc[t] = "AddAllLockDst"
    /\ CanLock(op[t].gh)
    /\ m' = [m EXCEPT ![op[t].gh] = TRUE]
    /\ pre' = [pre EXCEPT ![t] = gh[op[t].gh]]
    /\ pc' = [pc EXCEPT ![t] = "AddAllCounts"]
    /\ UNCHANGED <<scenario, gh, op, ncalls, loc, buf, vals, mark, replay,
                   searchVars, newVars, oldVars>>

\* AddAll: the loop over the bins.
AddAllCountsStep(t) ==
    /\ pc[t] = "AddAllCounts"
    /\ gh' = [gh EXCEPT ![op[t].gh] = AddAllCounts(@, gh[op[t].src])]
    /\ pc' = [pc EXCEPT ![t] = "AddAllTotals"]
    /\ UNCHANGED <<scenario, m, op, ncalls, loc, buf, vals, pre, mark, replay,
                   searchVars, newVars, oldVars>>

\* AddAll: the totals, the minimum and the maximum.
AddAllTotalsStep(t) ==
    /\ pc[t] = "AddAllTotals"
    /\ gh' = [gh EXCEPT ![op[t].gh] = AddAllTotals(@, gh[op[t].src])]
    /\ pc' = [pc EXCEPT ![t] = "AddAllUnlockDst"]
    /\ UNCHANGED <<scenario, m, op, ncalls, loc, buf, vals, pre, mark, replay,
                   searchVars, newVars, oldVars>>

\* AddAll: gh.m.Unlock()
AddAllUnlockDst(t) ==
    /\ pc[t] = "AddAllUnlockDst"
    /\ m' = [m EXCEPT ![op[t].gh] = FALSE]
    /\ pre' = [pre EXCEPT ![t] = Fresh]
    /\ pc' = [pc EXCEPT ![t] = "AddAllUnlockSrc"]
    /\ UNCHANGED <<scenario, gh, op, ncalls, loc, buf, vals, mark, replay,
                   searchVars, newVars, oldVars>>

\* AddAll: src.m.Unlock()
AddAllUnlockSrc(t) ==
    /\ pc[t] = "AddAllUnlockSrc"
    /\ m' = [m EXCEPT ![op[t].src] = FALSE]
    /\ pc' = [pc EXCEPT ![t] = "idle"]
    /\ op' = [op EXCEPT ![t] = NoOp]
    /\ UNCHANGED <<scenario, gh, ncalls, loc, buf, vals, pre, mark, replay,
                   searchVars, newVars, oldVars>>

\* EmitGraph: gh.m.Lock()
EmitLock(t) ==
    /\ pc[t] = "EmitLock"
    /\ CanLock(op[t].gh)
    /\ m' = [m EXCEPT ![op[t].gh] = TRUE]
    /\ pre' = [pre EXCEPT ![t] = gh[op[t].gh]]
    /\ pc' = [pc EXCEPT ![t] = "EmitBody"]
    /\ UNCHANGED <<scenario, gh, op, ncalls, loc, buf, vals, mark, replay,
                   searchVars, newVars, oldVars>>

\* EmitGraph: a new buffer if out is nil, then one line per bin appended.
EmitBody(t) ==
    /\ pc[t] = "EmitBody"
    /\ buf' = [buf EXCEPT ![t] = EmitBuffer(op[t].out, @, gh[op[t].gh])]
    /\ pc' = [pc EXCEPT ![t] = "EmitUnlock"]
    /\ UNCHANGED <<scenario, gh, m, op, ncalls, loc, vals, pre, mark, replay,
                   searchVars, newVars, oldVars>>

\* EmitGraph: gh.m.Unlock()
EmitUnlock(t) ==
    /\ pc[t] = "EmitUnlock"
    /\ m' = [m EXCEPT ![op[t].gh] = FALSE]
    /\ pre' = [pre EXCEPT ![t] = Fresh]
    /\ pc' = [pc EXCEPT ![t] = "idle"]
    /\ op' = [op EXCEPT ![t] = NoOp]
    /\ UNCHANGED <<scenario, gh, ncalls, loc, buf, vals, mark, replay,
                   searchVars, newVars, oldVars>>

\* CallSync: gh.m.Lock()
SyncLock(t) ==
    /\ pc[t] = "SyncLock"
    /\ CanLock(op[t].gh)
    /\ m' = [m EXCEPT ![op[t].gh] = TRUE]
    /\ pc' = [pc EXCEPT ![t] = "SyncCall"]
    /\ UNCHANGED <<scenario, gh, op, ncalls, loc, buf, vals, pre, mark, replay,
                   searchVars, newVars, oldVars>>

\* CallSync: f().  The callback returns, or it panics: the panic unwinds
\* CallSync, which has no deferred Unlock, up to a caller that recovers.
SyncCall(t) ==
    /\ pc[t] = "SyncCall"
    /\ pc' = [pc EXCEPT ![t] = IF op[t].f = "panic" THEN "idle" ELSE "SyncUnlock"]
    /\ op' = [op EXCEPT ![t] = IF op[t].f = "panic" THEN NoOp ELSE @]
    /\ UNCHANGED <<scenario, gh, m, ncalls, loc, buf, vals, pre, mark, replay,
                   searchVars, newVars, oldVars>>

\* CallSync: gh.m.Unlock()
SyncUnlock(t) ==
    /\ pc[t] = "SyncUnlock"
    /\ m' = [m EXCEPT ![op[t].gh] = FALSE]
    /\ pc' = [pc EXCEPT ![t] = "idle"]
    /\ op' = [op EXCEPT ![t] = NoOp]
    /\ UNCHANGED <<scenario, gh, ncalls, loc, buf, vals, pre, mark, replay,
                   searchVars, newVars, oldVars>>

(* --------------------------- search, stepwise ------------------------- *)

\* for i < j { ... }: one iteration.
SearchStep ==
    /\ sPc = "loop"
    /\ sI < sJ
    /\ LET n == SearchIter(sArr, sDataPoint, sI, sJ)
       IN  sI' = n[1] /\ sJ' = n[2]
    /\ sProbes' = Append(sProbes, SearchMid(sI, sJ))
    /\ UNCHANGED <<sArr, sDataPoint, sPc, sRet, newVars, histVars, oldVars>>

\* return i - 1
SearchReturn ==
    /\ sPc = "loop"
    /\ ~(sI < sJ)
    /\ sRet' = SearchResult(sI)
    /\ sPc' = "done"
    /\ UNCHANGED <<sArr, sDataPoint, sI, sJ, sProbes, newVars, histVars, oldVars>>

(* ---------------------------- the constructor ------------------------- *)

\* NewHistogram(numBins, binFirst, binGrowthFactor).  make panics on a
\* negative length, and gh.Ranges[0] or gh.Ranges[1] on numBins < 2.
NewHistogramCall ==
    /\ nOut.status = "none"
    /\ nOut' = IF nIn.numBins >= 2
               THEN [status |-> "ok",
                     h |-> NewHistogram(nIn.numBins, nIn.binFirst, nIn.g)]
               ELSE [status |-> "panic", h |-> Fresh]
    /\ UNCHANGED <<nIn, searchVars, histVars, oldVars>>

(* ----------------------- the earlier Histogram ------------------------ *)

\* The earlier NewHistogram: the same Ranges and Counts, no TotCount and no
\* TotDataPoint.
LockFreeNewHistogram(numBins, binFirst, g) ==
    [Ranges       |-> NewRanges(numBins, binFirst, g),
     Counts       |-> [i \in 0 .. numBins - 1 |-> 0],
     MinDataPoint |-> MaxUint64,
     MaxDataPoint |-> 0]

LockFreeFresh == LockFreeNewHistogram(Shape.numBins, Shape.binFirst, Shape.g)

\* The earlier func (gh *Histogram) Add(dataPoint uint64, count uint64):
\* the two ifs on MinDataPoint and MaxDataPoint compare and assign count.
LockFreeAdd(g, dataPoint, count) ==
    LET idx == search(g.Ranges, dataPoint)
        g1  == IF idx >= 0 THEN [g EXCEPT !.Counts[idx] = AddU(@, count)] ELSE g
    IN  [g1 EXCEPT !.MinDataPoint = IF @ > count THEN count ELSE @,
                   !.MaxDataPoint = IF @ < count THEN count ELSE @]

LockFreeWeights == {0, 1, 2, MaxUint64}

\* One call of the earlier Add, calls being serialized by the user.
LockFreeAddCall ==
    /\ lfCalls < MaxCalls
    /\ \E v \in AddValues, w \in LockFreeWeights :
          /\ lfGh' = LockFreeAdd(lfGh, v, w)
          /\ lfVals' = lfVals \cup {v}
    /\ lfCalls' = lfCalls + 1
    /\ UNCHANGED <<searchVars, newVars, histVars>>

(* --------------------------- specifications --------------------------- *)

\* The earlier histogram as its constructor returns it.
LockFreeIdle ==
    /\ lfGh = LockFreeFresh
    /\ lfCalls = 0
    /\ lfVals = {}

\* Two fresh histograms of the same shape and idle goroutines.
HistInit(sc) ==
    /\ scenario = sc
    /\ gh = [h \in Hists |-> Fresh]
    /\ m = [h \in Hists |-> FALSE]
    /\ pc = [t \in Threads |-> "idle"]
    /\ op = [t \in Threads |-> NoOp]
    /\ ncalls = 0
    /\ loc = [t \in Threads |-> NoLoc]
    /\ buf = [t \in Threads |-> <<>>]
    /\ vals = [h \in Hists |-> {}]
    /\ pre = [t \in Threads |-> Fresh]
    /\ mark = [h \in Hists |-> Fresh]
    /\ replay = Fresh

\* No call of search under way.
SearchIdle ==
    /\ sArr = <<>>
    /\ sDataPoint = 0
    /\ sI = 0
    /\ sJ = 0
    /\ sPc = "done"
    /\ sRet = -1
    /\ sProbes = <<>>

\* The constructor has returned the histograms of HistInit.
NewIdle ==
    /\ nIn = Shape
    /\ nOut = [status |-> "ok", h |-> Fresh]

\* Goroutines sharing two histograms.
Init ==
    (\E sc \in Scenarios : HistInit(sc)) /\ SearchIdle /\ NewIdle /\ LockFreeIdle

Next ==
    \E t \in Threads :
        \/ Call(t)
        \/ AddLock(t)
        \/ AddSearch(t)
        \/ AddCounts(t)
        \/ AddTotalsStep(t)
        \/ AddUnlock(t)
        \/ AddAllLockSrc(t)
        \/ AddAllLockDst(t)
        \/ AddAllCountsStep(t)
        \/ AddAllTotalsStep(t)
        \/ AddAllUnlockDst(t)
        \/ AddAllUnlockSrc(t)
        \/ EmitLock(t)
        \/ EmitBody(t)
        \/ EmitUnlock(t)
        \/ SyncLock(t)
        \/ SyncCall(t)
        \/ SyncUnlock(t)

Spec == Init /\ [][Next]_vars

\* The non-decreasing arrays of n entries over 0..MaxVal.
NonDecreasing(n) ==
    {a \in [0 .. n - 1 -> 0 .. MaxVal] : \A i \in 0 .. n - 2 : a[i] <= a[i + 1]}

\* search on every non-decreasing array, the empty one included.
SearchInit ==
    /\ sArr \in UNION {NonDecreasing(n) : n \in 0 .. MaxLen}
    /\ sDataPoint \in 0 .. MaxVal + 1
    /\ sI = 0
    /\ sJ = len(sArr)
    /\ sPc = "loop"
    /\ sRet = -1
    /\ sProbes = <<>>
    /\ NewIdle
    /\ HistInit("none")
    /\ LockFreeIdle

SearchNext == SearchStep \/ SearchReturn

SearchSpec == SearchInit /\ [][SearchNext]_vars

BinFirsts == {0, 1, 3, 10, 123}

\* 0.0 (constant width), 1.5, 2.0, 10.0, 1.25, and the unvalidated 0.5.
Growths == {Float(0, 1), Float(3, 2), Float(2, 1), Float(10, 1), Float(5, 4),
            Float(1, 2)}

\* Every boundary of a growing histogram fits the word, so that the
\* conversion uint64(math.Ceil(...)) is defined.
Fits(numBins, binFirst, g) ==
    \/ numBins < 2
    \/ g.num = 0
    \/ \A i \in 0 .. numBins - 1 : NewRanges(numBins, binFirst, g)[i] <= MaxUint64

NewInit ==
    /\ nIn \in {in \in [numBins : 0 .. MaxBins, binFirst : BinFirsts, g : Growths] :
                  Fits(in.numBins, in.binFirst, in.g)}
    /\ nOut = [status |-> "none", h |-> Fresh]
    /\ SearchIdle
    /\ HistInit("none")
    /\ LockFreeIdle

NewNext == NewHistogramCall

NewSpec == NewInit /\ [][NewNext]_vars

\* The earlier Histogram alone.
LockFreeInit == LockFreeIdle /\ SearchIdle /\ NewIdle /\ HistInit("none")

LockFreeNext == LockFreeAddCall

LockFreeSpec == LockFreeInit /\ [][LockFreeNext]_vars

(* ------------------------------ properties ---------------------------- *)

\* The greatest index k with arr[k] <= v, or -1 when there is none.
GreatestLE(arr, v) ==
    LET S == {k \in DOMAIN arr : arr[k] <= v}
    IN  IF S = {} THEN -1 ELSE MaxOf(S)

\* Data point v lies in the domain of bin i: [ranges[i], ranges[i+1]) for
\* i below the last bin, [ranges[last], +infinity) for the last.
InBin(ranges, i, v) ==
    /\ ranges[i] <= v
    /\ i < len(ranges) - 1 => v < ranges[i + 1]

\* The sum of the elements of counts, as a word.
SumOf(counts) ==
    LET RECURSIVE S(_)
        S(i) == IF i < 0 THEN 0 ELSE counts[i] + S(i - 1)
    IN  S(len(counts) - 1) % Modulus

\* The bins whose count differs between histograms g and p.
Changed(g, p) == {i \in DOMAIN g.Counts : g.Counts[i] # p.Counts[i]}

AllIdle == \A t \in Threads : pc[t] = "idle"

\* C1: for every non-decreasing array (the empty one included) and every
\* data point, search returns the greatest index whose entry is <= the data
\* point, and -1 when there is no such index.  (Under SearchSpec.)
C1_SearchGreatestLE ==
    /\ sPc = "done" => sRet = GreatestLE(sArr, sDataPoint)
    /\ search(sArr, sDataPoint) = GreatestLE(sArr, sDataPoint)

\* C1 witness: search has returned 1 on a three-entry array whose entries 0
\* and 1 are equal: the greatest of the indices not above the data point.
C1_Witness ==
    /\ sPc = "done"
    /\ len(sArr) = 3
    /\ sArr[0] = sArr[1]
    /\ sArr[1] <= sDataPoint
    /\ sDataPoint < sArr[2]
    /\ sRet = 1

\* C2: when the goroutines call only Add(v, 1) with every v in the same bin
\* of one histogram, then whenever all of them have returned, the count of
\* that bin and TotCount both equal the number of calls made: no increment
\* is lost under any interleaving.
C2_NoLostAdd ==
    (scenario = "add1" /\ AllIdle) =>
        /\ \A b \in DOMAIN gh["A"].Counts :
              (\A v \in SameBinValues : InBin(gh["A"].Ranges, b, v))
                  => gh["A"].Counts[b] = ncalls % Modulus
        /\ gh["A"].TotCount = ncalls % Modulus

\* C2 witness: every call of the scenario has been made and has returned,
\* and bin 1, the bin of 10 and 15, counts them all.
C2_Witness ==
    /\ scenario = "add1"
    /\ AllIdle
    /\ ncalls = MaxCalls
    /\ \A v \in SameBinValues : InBin(gh["A"].Ranges, 1, v)
    /\ gh["A"].Counts[1] = MaxCalls

\* C3 (the claim as stated): no state is reachable in which two goroutines
\* merging two distinct histograms into each other each hold the lock of
\* their source and wait for the lock of their receiver.
C3_NoMergeDeadlock ==
    ~ \E t1 \in Threads, t2 \in Threads :
        /\ t1 # t2
        /\ pc[t1] = "AddAllLockDst"
        /\ pc[t2] = "AddAllLockDst"
        /\ op[t1].gh # op[t1].src
        /\ op[t2].gh = op[t1].src
        /\ op[t2].src = op[t1].gh

\* C4: once Add(v, w) has written Counts, every bin whose count changed is
\* the bin whose domain contains v, and for w # 0 exactly that one bin
\* changed: 0 goes to bin 0, a boundary to its own bin, a value between two
\* boundaries to the lower bin, a value past the last boundary to the last.
C4_AddRouting ==
    \A t \in Threads :
        pc[t] = "AddTotals" =>
            LET g == gh[op[t].gh]
                v == op[t].dataPoint
            IN  /\ \A i \in Changed(g, pre[t]) : InBin(g.Ranges, i, v)
                /\ op[t].count # 0 => Cardinality(Changed(g, pre[t])) = 1
                /\ v = 0 => Changed(g, pre[t]) \subseteq {0}
                /\ v >= g.Ranges[len(g.Ranges) - 1]
                      => Changed(g, pre[t]) \subseteq {len(g.Ranges) - 1}

\* C4 witness: an Add of a data point equal to the boundary Ranges[1] has
\* incremented bin 1, and not bin 0.
C4_Witness ==
    \E t \in Threads :
        /\ pc[t] = "AddTotals"
        /\ op[t].dataPoint = gh[op[t].gh].Ranges[1]
        /\ op[t].count = 1
        /\ Changed(gh[op[t].gh], pre[t]) = {1}

\* C5: when the body of Add(v, w) is done, the count of the bin of v is w
\* more (modulo the word) than when Add took the lock, every other count is
\* unchanged, TotCount is w more, and Ranges is unchanged; for w # 0 exactly
\* one element of Counts changed.
C5_AddFrame ==
    \A t \in Threads :
        (pc[t] = "AddUnlock" /\ op[t].kind = "Add") =>
            LET g == gh[op[t].gh]
                p == pre[t]
                b == CHOOSE i \in DOMAIN p.Ranges : InBin(p.Ranges, i, op[t].dataPoint)
            IN  /\ g.Counts = [p.Counts EXCEPT ![b] = (@ + op[t].count) % Modulus]
                /\ g.TotCount = (p.TotCount + op[t].count) % Modulus
                /\ g.Ranges = p.Ranges
                /\ op[t].count # 0 => Cardinality(Changed(g, p)) = 1

\* C5 witness: an Add of weight MaxUint64 into a bin that already counts
\* events is done, and the other bins are as they were.
C5_Witness ==
    \E t \in Threads :
        /\ pc[t] = "AddUnlock"
        /\ op[t].kind = "Add"
        /\ op[t].count = MaxUint64
        /\ pre[t].Counts[1] = 1
        /\ pre[t].Counts[0] = 1
        /\ gh[op[t].gh].Counts[1] = 0
        /\ gh[op[t].gh].Counts[0] = 1

\* C6: after B.AddAll(A) has been called twice, with nothing else touching
\* A or B meanwhile, every count of B is its count before the first merge
\* plus twice the count of A, and every field of A is as it was.
C6_AddAllTwice ==
    (scenario = "merge" /\ ncalls = Len(Script("merge")) /\ AllIdle) =>
        /\ \A i \in DOMAIN gh["B"].Counts :
              gh["B"].Counts[i] =
                  (mark["B"].Counts[i] + 2 * mark["A"].Counts[i]) % Modulus
        /\ gh["A"] = mark["A"]

\* C6 witness: both merges are done, on an A with events in two bins and a
\* B that had events of its own.
C6_Witness ==
    /\ scenario = "merge"
    /\ ncalls = Len(Script("merge"))
    /\ AllIdle
    /\ mark["A"].Counts[1] = 2
    /\ mark["A"].Counts[2] = 1
    /\ mark["B"].Counts[1] = 1
    /\ gh["B"].Counts[1] = 5
    /\ gh["B"].Counts[2] = 2

\* C7: after any non-empty sequence of Add calls on a fresh histogram, in
\* any order and with any weights, MinDataPoint is the smallest data point
\* passed to Add and MaxDataPoint the largest.
C7_MinMax ==
    scenario \in {"adds", "add1"} =>
        \A h \in Hists :
            (Quiescent(h) /\ vals[h] # {}) =>
                /\ gh[h].MinDataPoint = MinOf(vals[h])
                /\ gh[h].MaxDataPoint = MaxOf(vals[h])

\* C7 witness: three Adds of 10, 15 and 25 have returned, with the minimum 10
\* and the maximum 25.
C7_Witness ==
    /\ scenario = "adds"
    /\ AllIdle
    /\ vals["A"] = {10, 15, 25}
    /\ gh["A"].MinDataPoint = 10
    /\ gh["A"].MaxDataPoint = 25

\* C8: whenever no call is under way on a histogram, its TotCount is the
\* sum of its Counts modulo the word, after any interleaving of Add and
\* AddAll among histograms of the same shape.
C8_TotCountIsSum ==
    \A h \in Hists :
        Quiescent(h) => gh[h].TotCount = SumOf(gh[h].Counts)

\* C8 witness: a histogram no Add was called on holds merged counts, two of
\* its bins count events, and no call is under way on it.
C8_Witness ==
    \E h \in Hists :
        /\ Quiescent(h)
        /\ vals[h] = {}
        /\ gh[h].Counts[0] > 0
        /\ gh[h].Counts[1] > 0
        /\ gh[h].TotCount = SumOf(gh[h].Counts)

\* k is the ceiling of (num/den) * x.
IsCeil(k, g, x) == k * g.den >= g.num * x /\ (k - 1) * g.den < g.num * x

\* The array {a0, a1, ...} as a Go slice.
Slice(seq) == [i \in 0 .. Len(seq) - 1 |-> seq[i + 1]]

\* C9: NewHistogram(numBins, binFirst, g) with numBins >= 2 returns Ranges
\* and Counts of length numBins, Counts all zero, Ranges[0] = 0, Ranges[1] =
\* binFirst, and for i >= 2 Ranges[i] = Ranges[i-1] + binFirst when g is 0
\* and ceil(g * Ranges[i-1]) otherwise; (5, 10, 2.0) gives {0, 10, 20, 40,
\* 80} and (5, 10, 1.5) gives {0, 10, 15, 23, 35}.  (Under NewSpec.)
C9_NewHistogramRanges ==
    (nOut.status # "none" /\ nIn.numBins >= 2) =>
        LET h == nOut.h
            n == nIn.numBins
        IN  /\ nOut.status = "ok"
            /\ DOMAIN h.Ranges = 0 .. n - 1
            /\ DOMAIN h.Counts = 0 .. n - 1
            /\ \A i \in 0 .. n - 1 : h.Counts[i] = 0
            /\ h.Ranges[0] = 0
            /\ h.Ranges[1] = nIn.binFirst
            /\ \A i \in 2 .. n - 1 :
                  IF nIn.g.num = 0
                  THEN h.Ranges[i] = (h.Ranges[i - 1] + nIn.binFirst) % Modulus
                  ELSE IsCeil(h.Ranges[i], nIn.g, h.Ranges[i - 1])
            /\ (n = 5 /\ nIn.binFirst = 10 /\ nIn.g = Float(2, 1))
                  => h.Ranges = Slice(<<0, 10, 20, 40, 80>>)
            /\ (n = 5 /\ nIn.binFirst = 10 /\ nIn.g = Float(3, 2))
                  => h.Ranges = Slice(<<0, 10, 15, 23, 35>>)

\* C9 witness: NewHistogram(5, 10, 1.5) has returned, with the ceiling of
\* 22.5 at index 3.
C9_Witness ==
    /\ nOut.status = "ok"
    /\ nIn = [numBins |-> 5, binFirst |-> 10, g |-> Float(3, 2)]
    /\ nOut.h.Ranges[3] = 23

\* C10 (the claim as stated): whenever no call is under way on a histogram
\* (every Add, AddAll, EmitGraph and CallSync on it has ended, however it
\* ended), its lock is free.
C10_LockFreeAfterCalls ==
    \A h \in Hists : Quiescent(h) => ~m[h]

\* Sequence a is a prefix of sequence b.
IsPrefix(a, b) == Len(a) <= Len(b) /\ SubSeq(b, 1, Len(a)) = a

EmitPcs == {"EmitLock", "EmitBody", "EmitUnlock"}

\* C11: EmitGraph is a pure read.  No step of EmitGraph changes a field of
\* any histogram, and when its body is done the receiver's Ranges, Counts,
\* TotCount, TotDataPoint, MinDataPoint and MaxDataPoint are what they were
\* when it took the lock; the step that writes the lines changes only the
\* caller's buffer, appends one line per bin, and keeps the content of a
\* buffer that was passed as a prefix.
C11_EmitGraphPureRead ==
    [][\A t \in Threads :
         (pc[t] \in EmitPcs /\ pc'[t] # pc[t]) =>
             /\ gh' = gh
             /\ pc[t] = "EmitUnlock" => gh[op[t].gh] = pre[t]
             /\ pc[t] # "EmitBody" => buf' = buf
             /\ pc[t] = "EmitBody" =>
                   /\ \A u \in Threads \ {t} : buf'[u] = buf[u]
                   /\ op[t].out = "buf" => IsPrefix(buf[t], buf'[t])
                   /\ Len(buf'[t]) = len(gh[op[t].gh].Counts)
                         + (IF op[t].out = "buf" THEN Len(buf[t]) ELSE 0)]_vars

\* C11 witness: EmitGraph has written the lines of a histogram that counts
\* events after the lines of an earlier call, into a buffer that was
\* passed to it.
C11_Witness ==
    \E t \in Threads :
        /\ pc[t] = "EmitUnlock"
        /\ op[t].out = "buf"
        /\ gh[op[t].gh].TotCount > 0
        /\ gh[op[t].gh] = pre[t]
        /\ Len(buf[t]) = 2 * len(gh[op[t].gh].Counts)

\* The lines the EmitGraph call of goroutine t has written: the last
\* len(Counts) lines of its buffer.
LastLines(t) ==
    LET n == len(gh[op[t].gh].Counts)
    IN  SubSeq(buf[t], Len(buf[t]) - n + 1, Len(buf[t]))

\* The running counts of the lines never decrease.
RunNonDecreasing(lines) ==
    \A i \in 1 .. Len(lines) - 1 : lines[i].run <= lines[i + 1].run

\* The counts of the lines, added as integers, stay below 2^WordBits.
NoWrap(lines) ==
    LET RECURSIVE S(_)
        S(i) == IF i = 0 THEN 0 ELSE lines[i].count + S(i - 1)
    IN  S(Len(lines)) < Modulus

\* C12 (the claim as stated): in every state with TotCount > 0 reached by
\* Add and AddAll, the running count EmitGraph reports is non-decreasing
\* from the first line to the last, and on the last line it equals
\* TotCount.
C12_RunCountMonotone ==
    \A t \in Threads :
        (pc[t] = "EmitUnlock" /\ gh[op[t].gh].TotCount > 0) =>
            LET lines == LastLines(t)
            IN  /\ RunNonDecreasing(lines)
                /\ lines[Len(lines)].run = lines[Len(lines)].tot

\* C12 (amended): in every state with TotCount > 0 reached by Add and
\* same-shape AddAll, also while other goroutines call Add, the running
\* count of the last line equals TotCount, and the running count is
\* non-decreasing from the first line to the last whenever the counts of
\* the bins, added as integers, are below 2^64.
C12_RunCountMonotoneNoWrap ==
    \A t \in Threads :
        (pc[t] = "EmitUnlock" /\ gh[op[t].gh].TotCount > 0) =>
            LET lines == LastLines(t)
            IN  /\ lines[Len(lines)].run = lines[Len(lines)].tot
                /\ lines[Len(lines)].tot = gh[op[t].gh].TotCount
                /\ NoWrap(lines) => RunNonDecreasing(lines)

\* C12 witness: EmitGraph has written the lines of a histogram with one
\* event in each of bins 0 and 1: running counts 1, 2, 2 of a total of 2.
C12_Witness ==
    \E t \in Threads :
        /\ pc[t] = "EmitUnlock"
        /\ NoWrap(LastLines(t))
        /\ [i \in 1 .. 3 |-> LastLines(t)[i].run] = <<1, 2, 2>>
        /\ LastLines(t)[3].tot = 2

\* C13: when the body of Add(v, w) is done, TotDataPoint is v more (modulo
\* the word) than when Add took the lock, whatever the weight w; when the
\* body of AddAll(src) is done, the receiver's TotDataPoint is
\* src.TotDataPoint more than when AddAll took the receiver's lock.
C13_TotDataPointRaw ==
    \A t \in Threads :
        /\ (pc[t] = "AddUnlock" /\ op[t].kind = "Add") =>
              gh[op[t].gh].TotDataPoint =
                  (pre[t].TotDataPoint + op[t].dataPoint) % Modulus
        /\ pc[t] = "AddAllUnlockDst" =>
              gh[op[t].gh].TotDataPoint =
                  (pre[t].TotDataPoint + gh[op[t].src].TotDataPoint) % Modulus

\* C13 witness: a merge is done into a receiver whose one event came from
\* Add(15, w) with w the largest word (its bin counts w, its TotDataPoint
\* was 15, not 15 * w), from a source whose TotDataPoint is 15.
C13_Witness ==
    \E t \in Threads :
        /\ pc[t] = "AddAllUnlockDst"
        /\ pre[t].Counts[1] = MaxUint64
        /\ pre[t].TotCount = MaxUint64
        /\ pre[t].TotDataPoint = 15
        /\ gh[op[t].src].TotDataPoint = 15
        /\ gh[op[t].gh].TotDataPoint = 30

\* C14: when B.AddAll(A) has returned, A and B of the same shape and A
\* filled only by Add, every field of B is what it would be had the Adds
\* made on A been made on B instead (replay is given every Add, those of A
\* and those of B); and merging an A no Add was made on leaves B as it was.
C14_MergeIsReplay ==
    (scenario = "merge" /\ ncalls = MaxCalls + 1 /\ AllIdle) =>
        /\ gh["B"] = replay
        /\ mark["A"] = Fresh => gh["B"] = mark["B"]

\* C14 witness: B.AddAll(A) has returned; A held the data point 0 and B the
\* data point 25, each with events of its own, and B now holds the minimum
\* 0 from A and its own maximum.
C14_Witness ==
    /\ scenario = "merge"
    /\ ncalls = MaxCalls + 1
    /\ AllIdle
    /\ vals["A"] = {0}
    /\ vals["B"] = {25}
    /\ mark["B"].MinDataPoint = 25
    /\ gh["B"].MinDataPoint = 0
    /\ gh["B"].MaxDataPoint = 25
    /\ gh["B"].TotCount = mark["A"].TotCount + mark["B"].TotCount
    /\ gh["B"] = replay

\* C15 (the claim as stated): AddAll runs to completion when no other
\* goroutine holds a lock, the source being the receiver included: no state
\* is reachable in which a goroutine inside h.AddAll(h) holds the lock of h
\* as the source and waits for it as the receiver, while every other
\* goroutine is idle and every other lock is free.
C15_SelfMergeCompletes ==
    ~ \E t \in Threads :
        /\ pc[t] = "AddAllLockDst"
        /\ op[t].src = op[t].gh
        /\ m[op[t].gh]
        /\ \A u \in Threads \ {t} : pc[u] = "idle"
        /\ \A h \in Hists \ {op[t].gh} : ~m[h]

\* The least k with 2^k >= n, for n >= 1: the ceiling of log2(n).
CeilLog2(n) == MinOf({k \in 0 .. n : 2 ^ k >= n})

\* C16: search terminates on every input.  At every iteration the probed
\* index h satisfies i <= h < j and was not probed before in the call, the
\* range [i, j) stays within the array and gets strictly smaller, and the
\* iterations made so far number at most ceil(log2(len(arr) + 1)).  (Under
\* SearchSpec.)
C16_SearchTerminates ==
    [][(sPc = "loop" /\ sI < sJ /\ searchVars' # searchVars) =>
          LET h == SearchMid(sI, sJ)
          IN  /\ sI <= h /\ h < sJ
              /\ \A k \in 1 .. Len(sProbes) : sProbes[k] # h
              /\ sProbes' = Append(sProbes, h)
              /\ 0 <= sI' /\ sI' <= sJ' /\ sJ' <= len(sArr)
              /\ sJ' - sI' < sJ - sI
              /\ Len(sProbes') <= CeilLog2(len(sArr) + 1)]_vars

\* C16 witness: search has returned after probing indices 2, 4 and 3 of a
\* five-entry array, one probe each: ceil(log2(6)) = 3 iterations.
C16_Witness ==
    /\ sPc = "done"
    /\ len(sArr) = 5
    /\ sProbes = <<2, 4, 3>>
    /\ sRet = 3

\* The arguments the documentation of NewHistogram allows (numBins >= 2,
\* binGrowthFactor 0.0 or above 1.0) for which no boundary overflows the
\* word.
WellFormedArgs(in) ==
    /\ in.numBins >= 2
    /\ in.g.num = 0 \/ in.g.num > in.g.den
    /\ IF in.g.num = 0
       THEN (in.numBins - 1) * in.binFirst <= MaxUint64
       ELSE Fits(in.numBins, in.binFirst, in.g)

NonDecreasingRanges(r) == \A i \in 0 .. len(r) - 2 : r[i] <= r[i + 1]

StrictlyIncreasingRanges(r) == \A i \in 0 .. len(r) - 2 : r[i] < r[i + 1]

\* C17 (the claim as stated): for numBins >= 2, a growth factor 0 or above
\* 1 and no overflow, Ranges is non-decreasing, and strictly increasing
\* whenever the growth factor is not 0 or binFirst > 0.  (Under NewSpec.)
C17_RangesMonotone ==
    (nOut.status = "ok" /\ WellFormedArgs(nIn)) =>
        /\ NonDecreasingRanges(nOut.h.Ranges)
        /\ (nIn.g.num # 0 \/ nIn.binFirst > 0)
              => StrictlyIncreasingRanges(nOut.h.Ranges)

\* C17 (amended): for numBins >= 2, a growth factor 0 or above 1 and no
\* overflow, Ranges is non-decreasing, and strictly increasing whenever
\* binFirst > 0.  (Under NewSpec.)
C17_RangesMonotoneBinFirst ==
    (nOut.status = "ok" /\ WellFormedArgs(nIn)) =>
        /\ NonDecreasingRanges(nOut.h.Ranges)
        /\ nIn.binFirst > 0 => StrictlyIncreasingRanges(nOut.h.Ranges)

\* C17 witness: NewHistogram(5, 1, 1.25) has returned {0, 1, 2, 3, 4}: the
\* ceiling keeps the boundaries apart under a growth factor close to 1.
C17_Witness ==
    /\ nOut.status = "ok"
    /\ nIn = [numBins |-> 5, binFirst |-> 1, g |-> Float(5, 4)]
    /\ WellFormedArgs(nIn)
    /\ nOut.h.Ranges = Slice(<<0, 1, 2, 3, 4>>)

\* C18 (the claim as stated): across every step of Add and AddAll, the new
\* TotCount of every histogram is greater than or equal to the old one.
C18_TotCountMonotone ==
    [][\A h \in Hists : gh'[h].TotCount >= gh[h].TotCount]_vars

\* What the step of goroutine t that writes TotCount adds to it: count in
\* Add, src.TotCount in AddAll.
TotCountIncrement(t) ==
    IF pc[t] = "AddTotals" THEN op[t].count ELSE gh[op[t].src].TotCount

\* C18 (amended): every step of Add(v, w) and AddAll(src) that writes
\* TotCount leaves it w, respectively src.TotCount, more modulo 2^64, so
\* that the new TotCount is greater than or equal to the old one whenever
\* the sum is below 2^64; no other step changes the TotCount of any
\* histogram.
C18_TotCountMonotoneNoWrap ==
    [][\A h \in Hists :
         gh'[h].TotCount # gh[h].TotCount =>
             \E t \in Threads :
                 /\ pc[t] \in {"AddTotals", "AddAllTotals"}
                 /\ pc'[t] # pc[t]
                 /\ op[t].gh = h
                 /\ gh'[h].TotCount =
                       (gh[h].TotCount + TotCountIncrement(t)) % Modulus
                 /\ gh[h].TotCount + TotCountIncrement(t) < Modulus
                       => gh'[h].TotCount >= gh[h].TotCount]_vars

\* C18 witness: a merge is done that took the receiver's TotCount from 1 to
\* 2, the source holding one event.
C18_Witness ==
    \E t \in Threads :
        /\ pc[t] = "AddAllUnlockDst"
        /\ pre[t].TotCount = 1
        /\ gh[op[t].src].TotCount = 1
        /\ gh[op[t].gh].TotCount = 2

\* C19 (the claim as stated): in the earlier Histogram, after any non-empty
\* sequence of Add(dataPoint, count) calls, MinDataPoint is the smallest
\* data point passed and MaxDataPoint the largest, whatever the counts.
\* (Under LockFreeSpec.)
C19_LockFreeMinMax ==
    lfVals # {} =>
        /\ lfGh.MinDataPoint = MinOf(lfVals)
        /\ lfGh.MaxDataPoint = MaxOf(lfVals)

\* MinDataPoint and MaxDataPoint are as NewHistogram set them.
SeedsIntact(g) == g.MinDataPoint = MaxUint64 /\ g.MaxDataPoint = 0

\* C20: whenever no call is under way on a histogram, either its seeds are
\* intact (MinDataPoint the largest word, MaxDataPoint 0) or MinDataPoint
\* <= MaxDataPoint, after any Add and same-shape AddAll; the seeds are
\* intact as long as no Add was called on any histogram, merges of empty
\* sources included, and once an Add on the histogram has returned the
\* seeds are gone and MinDataPoint <= MaxDataPoint.
C20_SeedsOrOrdered ==
    \A h \in Hists :
        Quiescent(h) =>
            /\ SeedsIntact(gh[h]) \/ gh[h].MinDataPoint <= gh[h].MaxDataPoint
            /\ (\A k \in Hists : vals[k] = {}) => SeedsIntact(gh[h])
            /\ vals[h] # {} =>
                  /\ ~SeedsIntact(gh[h])
                  /\ gh[h].MinDataPoint <= gh[h].MaxDataPoint

\* C20 witness: no call is under way; A, on which Add was called, has lost
\* its seeds, and B, on which no Add was called, holds the minimum 0 and
\* the maximum 15 of the data points merged into it.
C20_Witness ==
    /\ AllIdle
    /\ vals["A"] = {0, 15}
    /\ vals["B"] = {}
    /\ ~SeedsIntact(gh["A"])
    /\ gh["B"].MinDataPoint = 0
    /\ gh["B"].MaxDataPoint = 15

=============================================================================
